---- MODULE Spec2Model ----
(***************************************************************************)
(* Risk Dice: the App (App.tsx), its Firebase wrapper (firebase.ts, kept   *)
(* in DEPLOY.md), and the 3D die (components/RiskDice.tsx): Polyhedron     *)
(* Builder, Face Locator, Orientation Controller, Presentation Adapter.    *)
(*                                                                         *)
(* Numbers of the golden field Z[phi] are pairs <<a, b>> = a + b*phi, so   *)
(* the icosahedron's geometry is exact.  Angles are in units of 10^-5 rad, *)
(* frame timesteps in milliseconds, interpolation factors in thousandths.  *)
(***************************************************************************)
EXTENDS Integers, Sequences, FiniteSets, TLC

\* ------------------------------------------------------------------ bounds
MaxRolls == 2          \* rolls one run of the App starts
MaxRemoteOps == 3      \* increment/reset calls other clients issue
FrameBudget == 300     \* the frame budget the specification quotes
MaxFrames == 400       \* the frame counter stops counting here
MaxCalls == 2          \* calls of the Face Locator on one orientation
MaxBuilds == 5         \* mounts of the die, each one invocation of the builder

\* --------------------------------------------------------------- constants
SIDES == 20            \* App.tsx: const SIDES = 20
null == -1             \* null / undefined / Firebase's "no value"
UNIT == 1000           \* the lerp factor 1 in thousandths (and 1 s in ms)
PI == 314159           \* Math.PI in 10^-5 rad
threshold == 1000      \* const threshold = 0.01, in 10^-5 rad
speed == 8             \* const speed = 8.0
RetryLimit == 3        \* verificationRetryCountRef.current < 3

Faces == 0 .. (SIDES - 1)

Min(a, b) == IF a < b THEN a ELSE b
Max(a, b) == IF a > b THEN a ELSE b

\* ------------------------------------------------------ Z[phi] arithmetic
ZZero == <<0, 0>>
ZOne == <<1, 0>>
phi == <<0, 1>>
ZNeg(a) == <<0 - a[1], 0 - a[2]>>
ZAdd(a, b) == <<a[1] + b[1], a[2] + b[2]>>
ZSub(a, b) == <<a[1] - b[1], a[2] - b[2]>>
\* phi * phi = phi + 1
ZMul(a, b) == <<a[1] * b[1] + a[2] * b[2], a[1] * b[2] + a[2] * b[1] + a[2] * b[2]>>
\* a + b*phi = (x + y*sqrt(5)) / 2 with x = 2a + b, y = b
ZPos(a) ==
    LET x == 2 * a[1] + a[2]
        y == a[2]
    IN  \/ x >= 0 /\ y >= 0 /\ (x > 0 \/ y > 0)
        \/ x > 0 /\ y < 0 /\ x * x > 5 * y * y
        \/ x < 0 /\ y > 0 /\ 5 * y * y > x * x
ZLess(a, b) == ZPos(ZSub(b, a))

subVectors(a, b) == <<ZSub(a[1], b[1]), ZSub(a[2], b[2]), ZSub(a[3], b[3])>>
addVectors(a, b) == <<ZAdd(a[1], b[1]), ZAdd(a[2], b[2]), ZAdd(a[3], b[3])>>
negate(a) == <<ZNeg(a[1]), ZNeg(a[2]), ZNeg(a[3])>>
crossVectors(a, b) ==
    << ZSub(ZMul(a[2], b[3]), ZMul(a[3], b[2])),
       ZSub(ZMul(a[3], b[1]), ZMul(a[1], b[3])),
       ZSub(ZMul(a[1], b[2]), ZMul(a[2], b[1])) >>
dot(a, b) == ZAdd(ZAdd(ZMul(a[1], b[1]), ZMul(a[2], b[2])), ZMul(a[3], b[3]))

\* ------------------------------------------------------ Polyhedron Builder
\* The 12 vertices.  The code scales each to the circumradius 2; all twelve
\* have the same length, so the scaling is one positive factor for the whole
\* solid and changes no sign and no comparison of dot products: it is left out.
vertices ==
    << <<ZNeg(ZOne), phi, ZZero>>,        <<ZOne, phi, ZZero>>,
       <<ZNeg(ZOne), ZNeg(phi), ZZero>>,  <<ZOne, ZNeg(phi), ZZero>>,
       <<ZZero, ZNeg(ZOne), phi>>,        <<ZZero, ZOne, phi>>,
       <<ZZero, ZNeg(ZOne), ZNeg(phi)>>,  <<ZZero, ZOne, ZNeg(phi)>>,
       <<phi, ZZero, ZNeg(ZOne)>>,        <<phi, ZZero, ZOne>>,
       <<ZNeg(phi), ZZero, ZNeg(ZOne)>>,  <<ZNeg(phi), ZZero, ZOne>> >>

\* Variant: the first triple is listed with the opposite winding.
faceIndicesFlipped ==
    << <<0, 5, 11>>, <<0, 5, 1>>,  <<0, 1, 7>>,   <<0, 7, 10>>, <<0, 10, 11>>,
       <<1, 5, 9>>,  <<5, 11, 4>>, <<11, 10, 2>>, <<10, 7, 6>>, <<7, 1, 8>>,
       <<3, 9, 4>>,  <<3, 4, 2>>,  <<3, 2, 6>>,   <<3, 6, 8>>,  <<3, 8, 9>>,
       <<4, 9, 5>>,  <<2, 4, 11>>, <<6, 2, 10>>,  <<8, 6, 7>>,  <<9, 8, 1>> >>

faceIndices ==
    << <<0, 11, 5>>, <<0, 5, 1>>,  <<0, 1, 7>>,   <<0, 7, 10>>, <<0, 10, 11>>,
       <<1, 5, 9>>,  <<5, 11, 4>>, <<11, 10, 2>>, <<10, 7, 6>>, <<7, 1, 8>>,
       <<3, 9, 4>>,  <<3, 4, 2>>,  <<3, 2, 6>>,   <<3, 6, 8>>,  <<3, 8, 9>>,
       <<4, 9, 5>>,  <<2, 4, 11>>, <<6, 2, 10>>,  <<8, 6, 7>>,  <<9, 8, 1>> >>

\* One face of the loop "for (const indices of faceIndices)": the cross product
\* of the first two edges, negated when it points towards the centroid.  (The
\* code normalizes the cross product; the 20 faces are congruent, so that too
\* is one positive factor.  faceCenter is the vertex sum over 3.)
faceOf(indices) ==
    LET v1 == vertices[indices[1] + 1]
        v2 == vertices[indices[2] + 1]
        v3 == vertices[indices[3] + 1]
        edge1 == subVectors(v2, v1)
        edge2 == subVectors(v3, v1)
        normal == crossVectors(edge1, edge2)
        faceCenter == addVectors(addVectors(v1, v2), v3)
    IN  [ vertices |-> <<v1, v2, v3>>,
          normal |-> IF ZLess(dot(normal, faceCenter), ZZero) THEN negate(normal) ELSE normal ]

createStandardIcosahedron == [k \in 1 .. Len(faceIndices) |-> faceOf(faceIndices[k])]

\* const faces = useMemo(() => createStandardIcosahedron(), [])
faces == createStandardIcosahedron

\* ------------------------------------------------------------ orientation
\* The die's quaternion is kept relative to the target it is animated towards:
\* [face |-> f, angle |-> a] is an orientation at angular distance a
\* (10^-5 rad, 0 .. PI) from calculateTargetQuaternion(f); face = null is
\* the identity quaternion of a freshly mounted group.
identityQuaternion == [face |-> null, angle |-> 0]

calculateTargetQuaternion(faceIndex) ==
    IF Len(faces) = 0 \/ faceIndex < 0 \/ faceIndex >= Len(faces)
    THEN identityQuaternion
    ELSE [face |-> faceIndex, angle |-> 0]

\* Quaternion.angleTo(target), as the set of values it may return: the kept
\* distance when target is the one the quaternion is relative to; towards
\* another target (the designated face changed and no frame has turned the
\* die since) the distance depends on both targets, and the samples stand for it.
angleTo(q, target, samples) ==
    IF q.face = target.face THEN {q.angle} ELSE samples

\* Quaternion.slerp(target, t): along the shortest arc the remaining angle is
\* scaled by (1 - t); t = 1 copies the target.  Rounded up to the next
\* unit.
\* Variant: the slerp is applied to a clone, so the die's orientation stays.
slerpClone(angle, target, t) == [face |-> target.face, angle |-> angle]

slerp(angle, target, t) ==
    IF t >= UNIT THEN target
    ELSE [face |-> target.face, angle |-> (angle * (UNIT - t) + (UNIT - 1)) \div UNIT]

\* Variant: the face's normal is turned away from the camera, to (0, 0, -1).
frontDirectionAway(q) ==
    IF q.face = null THEN <<ZZero, ZZero, ZOne>> ELSE negate(faces[q.face + 1].normal)

\* The body-frame direction an exactly aligned quaternion turns to the camera
\* axis (0, 0, 1): setFromUnitVectors(faceNormal, targetDirection) maps the
\* face's normal onto it, and the identity leaves the axis itself there.
frontDirection(q) ==
    IF q.face = null THEN <<ZZero, ZZero, ZOne>> ELSE faces[q.face + 1].normal

\* ------------------------------------------------------------ Face Locator
\* worldNormal.dot(cameraDirection) for face index `index`: a rotation keeps
\* dot products, so it equals the face's normal dotted with the body-frame
\* direction facing the camera; normalDots tabulates these products once.
\* `noise` is the numerical error of the
\* evaluation: [face |-> k, amount |-> e] adds e to face k's product.
normalDots ==
    [i \in Faces \cup {null} |->
        [index \in Faces |->
            dot(faces[index + 1].normal, frontDirection([face |-> i, angle |-> 0]))]]

worldDot(index, q, noise) ==
    LET d == normalDots[q.face][index]
    IN  IF noise.face = index THEN ZAdd(d, <<noise.amount, 0>>) ELSE d

\* let maxDot = -Infinity
minusInfinity == [finite |-> FALSE, value |-> ZZero]

\* Variant: "dot >= maxDot", so the last face with the largest product wins.
exceedsOrEqual(d, maxDot) == ~maxDot.finite \/ ~ZLess(d, maxDot.value)

\* dot > maxDot
exceeds(d, maxDot) == ~maxDot.finite \/ ZLess(maxDot.value, d)

RECURSIVE detectLoop(_, _, _, _, _)
detectLoop(index, facingFaceIndex, maxDot, q, noise) ==
    IF index >= Len(faces) THEN facingFaceIndex
    ELSE LET d == worldDot(index, q, noise)
         IN  IF exceeds(d, maxDot)
             THEN detectLoop(index + 1, index, [finite |-> TRUE, value |-> d], q, noise)
             ELSE detectLoop(index + 1, facingFaceIndex, maxDot, q, noise)

detectFacingFace(q, noise) ==
    IF Len(faces) = 0 THEN -1
    ELSE detectLoop(0, 0, minusInfinity, q, noise)

noNoise == [face |-> null, amount |-> 0]

\* ---------------------------------------------------- Presentation Adapter
IDLE == "IDLE"
ROLLING == "ROLLING"
GREAT_FORTUNE == "GREAT_FORTUNE"
GREAT_MISFORTUNE == "GREAT_MISFORTUNE"
DiceOutcome == {IDLE, ROLLING, GREAT_FORTUNE, GREAT_MISFORTUNE}

\* The labels are the two-character CJK strings of the source, transliterated.
DaJi == "DA_JI"
DaXiong == "DA_XIONG"
Unknown == "??"
Slate800 == "#1e293b"
Slate600 == "#475569"
Red950 == "#7f1d1d"
Yellow600 == "#ca8a04"
Slate950 == "#0f172a"

\* Variant: the earlier adapter, where the shown face is always index 0.
faceAttributesEarlier(i, out, selected) ==
    IF i = 0
    THEN IF out = GREAT_MISFORTUNE
         THEN [text |-> DaXiong, color |-> Red950, highlight |-> TRUE]
         ELSE IF out = GREAT_FORTUNE
         THEN [text |-> DaJi, color |-> Yellow600, highlight |-> TRUE]
         ELSE [text |-> Unknown, color |-> Slate600, highlight |-> FALSE]
    ELSE [text |-> DaJi, color |-> Slate800, highlight |-> FALSE]

\* Variant: the designated face is highlighted while the die is rolling.
faceAttributesRollingLit(i, out, selected) ==
    IF i = selected /\ selected # null
    THEN IF out = GREAT_MISFORTUNE
         THEN [text |-> DaXiong, color |-> Red950, highlight |-> TRUE]
         ELSE IF out = GREAT_FORTUNE
         THEN [text |-> DaJi, color |-> Yellow600, highlight |-> TRUE]
         ELSE IF out = ROLLING
         THEN [text |-> Unknown, color |-> Slate600, highlight |-> TRUE]
         ELSE [text |-> Unknown, color |-> Slate600, highlight |-> FALSE]
    ELSE [text |-> DaJi, color |-> Slate800, highlight |-> FALSE]

\* The body of "for (let i = 0; i < 20; i++)" in RiskDice's useMemo.
faceAttributes(i, out, selected) ==
    IF i = selected /\ selected # null
    THEN IF out = GREAT_MISFORTUNE
         THEN [text |-> DaXiong, color |-> Red950, highlight |-> TRUE]
         ELSE IF out = GREAT_FORTUNE
         THEN [text |-> DaJi, color |-> Yellow600, highlight |-> TRUE]
         ELSE IF out = ROLLING
         THEN [text |-> Unknown, color |-> Slate600, highlight |-> FALSE]
         ELSE [text |-> Unknown, color |-> Slate600, highlight |-> FALSE]
    ELSE [text |-> DaJi, color |-> Slate800, highlight |-> FALSE]

defaultAppearance == [text |-> DaJi, color |-> Slate800, highlight |-> FALSE]

\* The adapter of RiskDice.tsx and the earlier one kept in src/unnamed/part_001.
Current == "current"
Earlier == "earlier"

\* Math.floor(Math.random() * 19) + 1
RandomDraws == 1 .. 19

\* const hiddenBadIndex = isMainBad ? -1 : Math.floor(Math.random() * 19) + 1
hiddenBadIndex(out, random) == IF out = GREAT_MISFORTUNE THEN -1 ELSE random

\* The body of the earlier adapter's loop: face 0 is the shown face, and one
\* other face, drawn at random, carries the dark DA_XIONG.
earlierAttributes(i, out, hidden) ==
    IF i = 0
    THEN IF out = GREAT_MISFORTUNE
         THEN [text |-> DaXiong, color |-> Red950, highlight |-> TRUE]
         ELSE IF out = GREAT_FORTUNE
         THEN [text |-> DaJi, color |-> Yellow600, highlight |-> TRUE]
         ELSE [text |-> Unknown, color |-> Slate600, highlight |-> FALSE]
    ELSE IF i = hidden
         THEN [text |-> DaXiong, color |-> Slate950, highlight |-> FALSE]
         ELSE [text |-> DaJi, color |-> Slate800, highlight |-> FALSE]

\* The three arrays a useMemo callback returns, from its per-face values.
arrays(attributes) ==
    [faceTexts |-> [k \in 1 .. SIDES |-> attributes[k - 1].text],
     faceColors |-> [k \in 1 .. SIDES |-> attributes[k - 1].color],
     faceHighlights |-> [k \in 1 .. SIDES |-> attributes[k - 1].highlight]]

\* Variant: the mounted adapter is always the earlier one.
evaluateEarlier(which, out, selected, random) ==
    arrays([i \in Faces |-> earlierAttributes(i, out, hiddenBadIndex(out, random))])

\* One evaluation of the mounted adapter's useMemo callback; random is what
\* Math.random gives the evaluation, which only the earlier adapter asks for.
evaluate(which, out, selected, random) ==
    IF which = Current
    THEN arrays([i \in Faces |-> faceAttributes(i, out, selected)])
    ELSE arrays([i \in Faces |-> earlierAttributes(i, out, hiddenBadIndex(out, random))])

notEvaluated == [faceTexts |-> <<>>, faceColors |-> <<>>, faceHighlights |-> <<>>]

\* What RiskDice hands to IcosahedronDice for the props of one render.
faceProps(out, selected) == [i \in Faces |-> faceAttributes(i, out, selected)]

\* =================================================================== state
VARIABLES
    \* App.tsx: the GameState fields and the other useState cells
    streak, totalRolls, maxStreak, outcome,
    isRolling, showExplosion, selectedFaceIndex, useGlobalStreak,
    mounted,            \* the mount effects have run
    rollTimers,         \* pending setTimeout(..., 1200) closures of rollDice
    explosionTimers,    \* pending setTimeout(() => setShowExplosion(false), 2000)
    started,            \* rolls begun so far
    localStorage,       \* the values stored under LOCAL_STORAGE_KEY (none or one)
    \* firebase.ts
    firebaseConfig,     \* which of the four checked config values are set
    database,           \* let database: Database | null
    globalStreak, globalMaxStreak,   \* the two remote values
    ops,                \* incrementGlobalStreak / resetGlobalStreak calls in flight
    nextOp,             \* calls issued so far
    subscribed,         \* the two onValue listeners are attached
    streakEvent, maxEvent,           \* a value event is waiting for its listener
    initialLoad,        \* loadInitialData: its stage and the values it read
    sinceReset,         \* increments committed since the last committed reset
    conflicts,          \* transaction attempts the server rejected
    \* RiskDice.tsx: IcosahedronDice
    quaternion, rotationComplete, verificationRetryCount, detectedFaceIndex,
    actualFacingFace,   \* the Face Locator's last answer
    verdict,            \* how the last snap's verification ended
    frames,             \* aligning frames since the roll stopped
    deltas,             \* the timesteps the render loop delivers
    noisy,              \* the Face Locator's products carry numerical error
    \* RiskDice.tsx: RiskDice's useMemo loop
    loopIndex, texts, colors, highlights,
    \* RiskDice.tsx: one call of detectFacingFace, iteration by iteration
    locIndex,           \* the forEach index
    locMaxDot,          \* let maxDot
    locFacing,          \* let facingFaceIndex
    locNoise,           \* the numerical error of this call's products
    locReturns,         \* what the calls made on this orientation returned
    \* RiskDice.tsx: createStandardIcosahedron and the component that calls it
    indexTable,         \* const faceIndices of the running build
    building,           \* an invocation is inside its for loop
    faceData,           \* const faceData of the running invocation
    builds,             \* invocations that have returned
    built,              \* const faces: what the last invocation returned
    countLog,           \* what the face count effect wrote to the console
    group, meshes,      \* the <group> is rendered; the DiceFace elements in it
    \* RiskDice's face attributes useMemo, evaluated twice on the same props
    adapter,            \* which of the repository's two adapters is mounted
    evalA, evalB        \* what the first and the second evaluation returned

appVars == <<streak, totalRolls, maxStreak, outcome, isRolling, showExplosion,
             selectedFaceIndex, useGlobalStreak, mounted, rollTimers,
             explosionTimers, started, localStorage>>
fbVars == <<firebaseConfig, database, globalStreak, globalMaxStreak, ops, nextOp,
            subscribed, streakEvent, maxEvent, initialLoad, sinceReset, conflicts>>
diceVars == <<quaternion, rotationComplete, verificationRetryCount,
              detectedFaceIndex, actualFacingFace, verdict, frames, deltas, noisy>>
memoVars == <<loopIndex, texts, colors, highlights>>
locVars == <<locIndex, locMaxDot, locFacing, locNoise, locReturns>>
buildVars == <<indexTable, building, faceData, builds, built, countLog, group, meshes>>
pureVars == <<adapter, evalA, evalB>>
otherVars == <<memoVars, locVars, buildVars, pureVars>>
vars == <<appVars, fbVars, diceVars, otherVars>>

\* ------------------------------------------------------------ input samples
\* Faces Math.floor(Math.random() * SIDES) is sampled at: the unfavourable
\* face, its neighbour, and the last index.
RollFaces == {0, 1, SIDES - 1}
\* Orientations a spin (or a new target) leaves the die at: on the target,
\* just inside and just outside the snap threshold, a quarter and a half turn.
AngleSamples == {0, threshold - 1, threshold, PI \div 2, PI}
\* Frame timesteps in ms: 60 Hz, and a stalled frame of 1/8 s.
FrameDeltas == {17, 125}
\* Timesteps of a fixed-rate loop, in ms: 333, 240, 144, 60, 30 Hz, 1/8 s, 1 s.
FixedDeltas == {3, 4, 7, 17, 33, 125, UNIT}
\* The timestep of a 500 Hz display, in ms.
FineDeltas == {2}
NoiseAmount == 100
NoiseFaces == {0, 1, SIDES - 1}
Noises ==
    IF noisy
    THEN {noNoise} \cup {[face |-> k, amount |-> NoiseAmount] : k \in NoiseFaces}
    ELSE {noNoise}

\* detectFacingFace on every exactly aligned orientation, without error and
\* with the error on each face, evaluated once.
located ==
    [f \in Faces \cup {null} |->
        [k \in Faces \cup {null} |->
            detectFacingFace([face |-> f, angle |-> 0],
                             [face |-> k, amount |-> IF k = null THEN 0 ELSE NoiseAmount])]]

AllKeys == [apiKey |-> TRUE, authDomain |-> TRUE, databaseURL |-> TRUE, projectId |-> TRUE]
NoKeys == [apiKey |-> FALSE, authDomain |-> FALSE, databaseURL |-> FALSE, projectId |-> FALSE]
ConfigSamples == {AllKeys, NoKeys, [AllKeys EXCEPT !.databaseURL = FALSE]}

NotVerified == "none"
Verified == "verified"
Retried == "retry"
Forced == "forced"

NoDatabase == "null"
TheDatabase == "Database"

\* ------------------------------------------------------------- App helpers
\* value ?? 0 and currentValue || 0
OrZero(v) == IF v = null THEN 0 ELSE v

\* Variant: only the last decimal digit of a number is written.
stringifyLastDigit(n) == <<n % 10>>

\* JSON.stringify of a non-negative integer: its decimal digits.
RECURSIVE stringify(_)
stringify(n) == IF n < 10 THEN <<n>> ELSE Append(stringify(n \div 10), n % 10)

\* JSON.parse of a number token: the value of its decimal digits.
RECURSIVE parse(_)
parse(digits) ==
    IF Len(digits) = 0 THEN null
    ELSE IF Len(digits) = 1 THEN digits[1]
    ELSE 10 * parse(SubSeq(digits, 1, Len(digits) - 1)) + digits[Len(digits)]

\* The autosave effect: the JSON of the three counters replaces the stored value.
saved(s, t, m) ==
    {[streak |-> stringify(s), totalRolls |-> stringify(t), maxStreak |-> stringify(m)]}

\* loadLocalState(): the GameState a start reads from localStorage.
loadLocalState(store) ==
    IF store # {}
    THEN LET json == CHOOSE r \in store : TRUE
             parsed == [streak |-> parse(json.streak),
                        totalRolls |-> parse(json.totalRolls),
                        maxStreak |-> parse(json.maxStreak)]
         IN  [streak |-> OrZero(parsed.streak), totalRolls |-> OrZero(parsed.totalRolls),
              outcome |-> IDLE, maxStreak |-> OrZero(parsed.maxStreak)]
    ELSE [streak |-> 0, totalRolls |-> 0, outcome |-> IDLE, maxStreak |-> 0]

isFirebaseConfigured ==
    /\ firebaseConfig.apiKey
    /\ firebaseConfig.authDomain
    /\ firebaseConfig.databaseURL
    /\ firebaseConfig.projectId

isFirebaseAvailable == isFirebaseConfigured /\ database # NoDatabase

noLoad == [stage |-> "none", streak |-> 0, maxStreak |-> 0]

\* ------------------------------------------------------------------- Init
\* No call of detectFacingFace is being followed.
\* useEffect([faces.length]): the console line of the face count check.
Warned == "warn"
Logged == "log"
Silent == "none"

faceCountEffect(length) == IF length # 20 THEN Warned ELSE Logged

\* IcosahedronDice's return: null without faces, else one DiceFace per face.
render(fs) ==
    IF Len(fs) = 0
    THEN [group |-> FALSE, meshes |-> 0]
    ELSE [group |-> TRUE, meshes |-> Len(fs)]

\* The mounted die of the App: faces built once from the table in the source.
DieBuilt ==
    /\ indexTable = faceIndices
    /\ building = FALSE
    /\ faceData = <<>>
    /\ builds = 1
    /\ built = faces
    /\ countLog = faceCountEffect(Len(faces))
    /\ group = render(faces).group
    /\ meshes = render(faces).meshes

\* Before IcosahedronDice is rendered for the first time.
NothingBuilt(tables) ==
    /\ indexTable \in tables
    /\ building = FALSE
    /\ faceData = <<>>
    /\ builds = 0
    /\ built = <<>>
    /\ countLog = Silent
    /\ group = FALSE
    /\ meshes = 0

\* Neither evaluation of the adapter has run.
AdapterAtStart(adapters) ==
    /\ adapter \in adapters
    /\ evalA = notEvaluated
    /\ evalB = notEvaluated

LocatorAtStart ==
    /\ locIndex = 0
    /\ locMaxDot = minusInfinity
    /\ locFacing = 0
    /\ locNoise = noNoise
    /\ locReturns = <<>>

\* App(): the useState cells before the mount effects, read from one of the
\* given stores.
AppStartingOn(stores) ==
    /\ localStorage \in stores
    /\ streak = loadLocalState(localStorage).streak
    /\ totalRolls = loadLocalState(localStorage).totalRolls
    /\ maxStreak = loadLocalState(localStorage).maxStreak
    /\ outcome = loadLocalState(localStorage).outcome
    /\ isRolling = FALSE
    /\ showExplosion = FALSE
    /\ selectedFaceIndex = null
    /\ useGlobalStreak = FALSE
    /\ mounted = FALSE
    /\ rollTimers = {}
    /\ explosionTimers = 0
    /\ started = 0

\* The first start ever: nothing stored yet.
AppAtStart == AppStartingOn({{}})

\* firebase.ts as loaded, against a database nobody has written yet.
FirebaseAtStart(configs) ==
    /\ firebaseConfig \in configs
    /\ database = NoDatabase
    /\ globalStreak = null
    /\ globalMaxStreak = null
    /\ ops = {}
    /\ nextOp = 0
    /\ subscribed = FALSE
    /\ streakEvent = FALSE
    /\ maxEvent = FALSE
    /\ initialLoad = noLoad
    /\ sinceReset = 0
    /\ conflicts = 0

\* IcosahedronDice's refs and state as created.
DiceRefsAtStart(noise, steps) ==
    /\ rotationComplete = FALSE
    /\ verificationRetryCount = 0
    /\ detectedFaceIndex = null
    /\ actualFacingFace = null
    /\ verdict = NotVerified
    /\ frames = 0
    /\ deltas = steps
    /\ noisy = noise

MemoAtStart ==
    /\ loopIndex = 0
    /\ texts = <<>>
    /\ colors = <<>>
    /\ highlights = <<>>

InitWith(configs, noise, steps) ==
    /\ AppAtStart
    /\ FirebaseAtStart(configs)
    /\ quaternion = identityQuaternion
    /\ DiceRefsAtStart(noise, steps)
    /\ MemoAtStart
    /\ LocatorAtStart
    /\ DieBuilt
    /\ AdapterAtStart({Current})

Init == InitWith(ConfigSamples, FALSE, FrameDeltas)

\* ============================================================ App actions
\* The mount effects of App: the autosave effect writes the loaded counters,
\* and the Firebase effect switches to the global streak when available.
Mount ==
    /\ ~mounted
    /\ mounted' = TRUE
    /\ localStorage' = saved(streak, totalRolls, maxStreak)
    /\ IF ~isFirebaseAvailable
       THEN UNCHANGED <<useGlobalStreak, subscribed, streakEvent, maxEvent, initialLoad>>
       ELSE /\ useGlobalStreak' = TRUE
            /\ initialLoad' = [noLoad EXCEPT !.stage = "pending"]
            /\ subscribed' = TRUE
            \* onValue calls back once with the current value
            /\ streakEvent' = TRUE
            /\ maxEvent' = TRUE
    /\ UNCHANGED <<streak, totalRolls, maxStreak, outcome, isRolling, showExplosion,
                   selectedFaceIndex, rollTimers, explosionTimers, started>>
    /\ UNCHANGED <<firebaseConfig, database, globalStreak, globalMaxStreak, ops,
                   nextOp, sinceReset, conflicts>>
    /\ UNCHANGED <<diceVars, otherVars>>

\* firebase.ts exports initializeFirebase "for tests or manual initialisation";
\* nothing in App.tsx calls it, so it runs only if the page's entry code does,
\* before the App mounts.  (A failing initializeApp leaves database null.)
initializeFirebase ==
    /\ ~mounted
    /\ database = NoDatabase
    /\ isFirebaseConfigured
    /\ database' = TheDatabase
    /\ UNCHANGED <<firebaseConfig, globalStreak, globalMaxStreak, ops, nextOp,
                   subscribed, streakEvent, maxEvent, initialLoad, sinceReset, conflicts>>
    /\ UNCHANGED <<appVars, diceVars, otherVars>>

\* Variant: the effect clears the completion flag but keeps the retry count.
isRollingEffectKeepCount(rolling, complete, retryCount) ==
    IF rolling
    THEN [rotationComplete |-> FALSE, verificationRetryCount |-> retryCount]
    ELSE [rotationComplete |-> complete, verificationRetryCount |-> retryCount]

\* IcosahedronDice's useEffect([isRolling]): what it does to the two refs the
\* model keeps (the angular velocities are part of the spin's random draws).
isRollingEffect(rolling, complete, retryCount) ==
    IF rolling
    THEN [rotationComplete |-> FALSE, verificationRetryCount |-> 0]
    ELSE [rotationComplete |-> complete, verificationRetryCount |-> retryCount]

\* Variant: rollDice without its guard (and the button never disabled).
returnsEarlyNever(rolling) == FALSE

\* if (isRolling) return; the button is disabled on the same condition.
returnsEarly(rolling) == rolling

\* rollDice, with the render it causes: IcosahedronDice's useEffect([isRolling])
\* resets the completion flag and the retry counter.
rollDice(selectedFace) ==
    /\ mounted
    /\ ~returnsEarly(isRolling)
    /\ started < MaxRolls
    /\ showExplosion' = FALSE
    /\ selectedFaceIndex' = selectedFace
    /\ isRolling' = TRUE
    /\ outcome' = ROLLING
    /\ started' = started + 1
    /\ rollTimers' = rollTimers \cup
           {[id |-> started + 1, isBad |-> (selectedFace = 0),
             useGlobalStreak |-> useGlobalStreak]}
    /\ LET reset == isRollingEffect(TRUE, rotationComplete, verificationRetryCount)
       IN  /\ rotationComplete' = reset.rotationComplete
           /\ verificationRetryCount' = reset.verificationRetryCount
    /\ verdict' = NotVerified
    /\ frames' = 0
    /\ UNCHANGED <<streak, totalRolls, maxStreak, useGlobalStreak, mounted,
                   explosionTimers, localStorage>>
    /\ UNCHANGED <<quaternion, detectedFaceIndex, actualFacingFace, deltas, noisy>>
    /\ UNCHANGED <<fbVars, otherVars>>

RollDice == \E selectedFace \in RollFaces : rollDice(selectedFace)

\* A call of incrementGlobalStreak ("inc") or resetGlobalStreak ("reset"): pc
\* is the await it stands at, seen the value its update function last ran on,
\* newValue what the increment computed, committed the streak its first
\* transaction wrote (null before that), failed whether it took its catch
\* branch.  app: the call is the App's, and isBad is its roll's closure.
newOp(id, kind, app, isBad) ==
    [id |-> id, kind |-> kind, pc |-> "run", seen |-> null, newValue |-> null,
     failed |-> FALSE, committed |-> null, app |-> app, isBad |-> isBad]

\* Variant: a bad roll clears maxStreak together with the streak.
localCompletionClearsMax(prev, isBad) ==
    IF isBad
    THEN [streak |-> 0, totalRolls |-> prev.totalRolls + 1,
          outcome |-> GREAT_MISFORTUNE, maxStreak |-> 0]
    ELSE LET newStreak == prev.streak + 1
         IN  [streak |-> newStreak, totalRolls |-> prev.totalRolls + 1,
              outcome |-> GREAT_FORTUNE, maxStreak |-> Max(prev.maxStreak, newStreak)]

\* Variant: a good roll adds to the streak but leaves maxStreak as it was.
localCompletionKeepMax(prev, isBad) ==
    IF isBad
    THEN [streak |-> 0, totalRolls |-> prev.totalRolls + 1,
          outcome |-> GREAT_MISFORTUNE, maxStreak |-> prev.maxStreak]
    ELSE [streak |-> prev.streak + 1, totalRolls |-> prev.totalRolls + 1,
          outcome |-> GREAT_FORTUNE, maxStreak |-> prev.maxStreak]

\* The local-mode setState updaters of the timeout handler: a bad roll zeroes
\* the streak and keeps maxStreak; a good one adds one and raises maxStreak.
localCompletion(prev, isBad) ==
    IF isBad
    THEN [streak |-> 0, totalRolls |-> prev.totalRolls + 1,
          outcome |-> GREAT_MISFORTUNE, maxStreak |-> prev.maxStreak]
    ELSE LET newStreak == prev.streak + 1
         IN  [streak |-> newStreak, totalRolls |-> prev.totalRolls + 1,
              outcome |-> GREAT_FORTUNE, maxStreak |-> Max(prev.maxStreak, newStreak)]

\* The setTimeout(async () => ..., 1200) of rollDice up to its first await, with
\* the render it causes: targetQuaternion's useMemo clears the completion flag
\* when the designated face is not the detected one.
rollTimeout(t) ==
    /\ t \in rollTimers
    /\ rollTimers' = rollTimers \ {t}
    /\ isRolling' = FALSE
    /\ rotationComplete' =
          IF selectedFaceIndex # null /\ selectedFaceIndex # detectedFaceIndex
          THEN FALSE ELSE rotationComplete
    /\ showExplosion' = IF t.isBad THEN TRUE ELSE showExplosion
    /\ IF t.useGlobalStreak
       THEN /\ ops' = ops \cup {newOp(nextOp + 1, IF t.isBad THEN "reset" ELSE "inc", TRUE, t.isBad)}
            /\ nextOp' = nextOp + 1
            /\ UNCHANGED <<streak, totalRolls, maxStreak, outcome, explosionTimers, localStorage>>
       ELSE /\ LET next == localCompletion(
                            [streak |-> streak, totalRolls |-> totalRolls,
                             outcome |-> outcome, maxStreak |-> maxStreak], t.isBad)
               IN  /\ streak' = next.streak
                   /\ totalRolls' = next.totalRolls
                   /\ outcome' = next.outcome
                   /\ maxStreak' = next.maxStreak
            /\ explosionTimers' = IF t.isBad THEN explosionTimers + 1 ELSE explosionTimers
            /\ localStorage' = saved(streak', totalRolls', maxStreak')
            /\ UNCHANGED <<ops, nextOp>>
    /\ UNCHANGED <<selectedFaceIndex, useGlobalStreak, mounted, started>>
    /\ UNCHANGED <<firebaseConfig, database, globalStreak, globalMaxStreak, subscribed,
                   streakEvent, maxEvent, initialLoad, sinceReset, conflicts>>
    /\ UNCHANGED <<quaternion, verificationRetryCount, detectedFaceIndex,
                   actualFacingFace, verdict, frames, deltas, noisy>>
    /\ UNCHANGED otherVars

RollTimeout == \E t \in rollTimers : rollTimeout(t)

\* Variant: the continuation sets the outcome but does not count the roll.
globalCompletionUncounted(prev, isBad) ==
    [prev EXCEPT !.outcome = IF isBad THEN GREAT_MISFORTUNE ELSE GREAT_FORTUNE]

\* The global-mode setState updaters after the await: the roll is counted and
\* the outcome set; streak and maxStreak are left to the listeners.
globalCompletion(prev, isBad) ==
    [prev EXCEPT !.totalRolls = prev.totalRolls + 1,
                 !.outcome = IF isBad THEN GREAT_MISFORTUNE ELSE GREAT_FORTUNE]

\* The rest of the timeout handler in global mode, after its await.
opReturn(op) ==
    /\ op \in ops
    /\ op.pc = "return"
    /\ ops' = ops \ {op}
    /\ IF op.app
       THEN /\ LET next == globalCompletion(
                            [streak |-> streak, totalRolls |-> totalRolls,
                             outcome |-> outcome, maxStreak |-> maxStreak], op.isBad)
               IN  /\ totalRolls' = next.totalRolls
                   /\ outcome' = next.outcome
            /\ explosionTimers' = IF op.isBad THEN explosionTimers + 1 ELSE explosionTimers
            /\ localStorage' = saved(streak, totalRolls', maxStreak)
       ELSE UNCHANGED <<totalRolls, outcome, explosionTimers, localStorage>>
    /\ UNCHANGED <<streak, maxStreak, isRolling, showExplosion, selectedFaceIndex,
                   useGlobalStreak, mounted, rollTimers, started>>
    /\ UNCHANGED <<firebaseConfig, database, globalStreak, globalMaxStreak, nextOp,
                   subscribed, streakEvent, maxEvent, initialLoad, sinceReset, conflicts>>
    /\ UNCHANGED <<diceVars, otherVars>>

OpReturn == \E op \in ops : opReturn(op)

\* setTimeout(() => setShowExplosion(false), 2000)
ExplosionTimeout ==
    /\ explosionTimers > 0
    /\ explosionTimers' = explosionTimers - 1
    /\ showExplosion' = FALSE
    /\ UNCHANGED <<streak, totalRolls, maxStreak, outcome, isRolling, selectedFaceIndex,
                   useGlobalStreak, mounted, rollTimers, started, localStorage>>
    /\ UNCHANGED <<fbVars, diceVars, otherVars>>

\* ======================================================= firebase.ts actions
\* runTransaction(ref, update) of the Realtime Database SDK: the client runs
\* update on the value it knows and sends the result with that value; the
\* server applies it only if the value is still the one sent, otherwise the
\* client runs update again on the fresh value.

\* The update functions: (currentValue || 0) + 1, and () => 0.
streakUpdate(kind, currentValue) ==
    IF kind = "inc" THEN OrZero(currentValue) + 1 ELSE 0

\* Math.max(currentMax || 0, newValue)
maxUpdate(currentMax, newValue) == Max(OrZero(currentMax), newValue)

\* Variant: a plain set(), which the server applies whatever value it holds.
acceptsAny(serverValue, seenValue) == TRUE

\* What incrementGlobalStreak hands back: newValue, or null from its catch.
returnValue(op) == IF op.failed THEN null ELSE op.newValue

\* The server's test of a transaction attempt.
accepts(serverValue, seenValue) == serverValue = seenValue

txnRun(op) ==
    /\ op \in ops
    /\ op.pc \in {"run", "maxRun"}
    /\ ops' = (ops \ {op}) \cup
          { IF op.pc = "run"
            THEN [op EXCEPT !.pc = "commit", !.seen = globalStreak,
                            !.newValue = IF op.kind = "inc"
                                         THEN streakUpdate(op.kind, globalStreak)
                                         ELSE null]
            ELSE [op EXCEPT !.pc = "maxCommit", !.seen = globalMaxStreak] }
    /\ UNCHANGED <<firebaseConfig, database, globalStreak, globalMaxStreak, nextOp,
                   subscribed, streakEvent, maxEvent, initialLoad, sinceReset, conflicts>>
    /\ UNCHANGED <<appVars, diceVars, otherVars>>

TxnRun == \E op \in ops : txnRun(op)

txnCommit(op) ==
    /\ op \in ops
    /\ op.pc \in {"commit", "maxCommit"}
    /\ IF op.pc = "commit"
       THEN IF accepts(globalStreak, op.seen)
            THEN /\ globalStreak' = streakUpdate(op.kind, op.seen)
                 /\ sinceReset' = IF op.kind = "inc" THEN sinceReset + 1 ELSE 0
                 /\ streakEvent' = (streakEvent \/ (subscribed /\ globalStreak' # globalStreak))
                 /\ ops' = (ops \ {op}) \cup
                       {[op EXCEPT !.pc = IF op.kind = "inc" THEN "maxRun" ELSE "return",
                                   !.committed = globalStreak']}
                 /\ UNCHANGED <<globalMaxStreak, maxEvent, conflicts>>
            ELSE /\ ops' = (ops \ {op}) \cup {[op EXCEPT !.pc = "run"]}
                 /\ conflicts' = conflicts + 1
                 /\ UNCHANGED <<globalStreak, globalMaxStreak, sinceReset, streakEvent, maxEvent>>
       ELSE IF accepts(globalMaxStreak, op.seen)
            THEN /\ globalMaxStreak' = maxUpdate(op.seen, op.newValue)
                 /\ maxEvent' = (maxEvent \/ (subscribed /\ globalMaxStreak' # globalMaxStreak))
                 /\ ops' = (ops \ {op}) \cup {[op EXCEPT !.pc = "return"]}
                 /\ UNCHANGED <<globalStreak, sinceReset, streakEvent, conflicts>>
            ELSE /\ ops' = (ops \ {op}) \cup {[op EXCEPT !.pc = "maxRun"]}
                 /\ conflicts' = conflicts + 1
                 /\ UNCHANGED <<globalStreak, globalMaxStreak, sinceReset, streakEvent, maxEvent>>
    /\ UNCHANGED <<firebaseConfig, database, nextOp, subscribed, initialLoad>>
    /\ UNCHANGED <<appVars, diceVars, otherVars>>

TxnCommit == \E op \in ops : txnCommit(op)

\* runTransaction rejects (network, permission): the catch branch logs and the
\* call returns null / false.
txnFail(op) ==
    /\ op \in ops
    /\ op.pc \in {"run", "commit", "maxRun", "maxCommit"}
    /\ ops' = (ops \ {op}) \cup {[op EXCEPT !.pc = "return", !.failed = TRUE]}
    /\ UNCHANGED <<firebaseConfig, database, globalStreak, globalMaxStreak, nextOp,
                   subscribed, streakEvent, maxEvent, initialLoad, sinceReset, conflicts>>
    /\ UNCHANGED <<appVars, diceVars, otherVars>>

TxnFail == \E op \in ops : txnFail(op)

\* Another client's App calls incrementGlobalStreak or resetGlobalStreak.
RemoteCall ==
    /\ nextOp < MaxRemoteOps
    /\ \E kind \in {"inc", "reset"} :
          ops' = ops \cup {newOp(nextOp + 1, kind, FALSE, kind = "reset")}
    /\ nextOp' = nextOp + 1
    /\ UNCHANGED <<firebaseConfig, database, globalStreak, globalMaxStreak,
                   subscribed, streakEvent, maxEvent, initialLoad, sinceReset, conflicts>>
    /\ UNCHANGED <<appVars, diceVars, otherVars>>

\* listenToGlobalStreak's onValue callback: setState(prev => ({...prev, streak}))
ListenStreak ==
    /\ subscribed
    /\ streakEvent
    /\ streakEvent' = FALSE
    /\ streak' = OrZero(globalStreak)
    /\ localStorage' = saved(streak', totalRolls, maxStreak)
    /\ UNCHANGED <<totalRolls, maxStreak, outcome, isRolling, showExplosion,
                   selectedFaceIndex, useGlobalStreak, mounted, rollTimers,
                   explosionTimers, started>>
    /\ UNCHANGED <<firebaseConfig, database, globalStreak, globalMaxStreak, ops, nextOp,
                   subscribed, maxEvent, initialLoad, sinceReset, conflicts>>
    /\ UNCHANGED <<diceVars, otherVars>>

\* listenToGlobalMaxStreak's onValue callback
ListenMaxStreak ==
    /\ subscribed
    /\ maxEvent
    /\ maxEvent' = FALSE
    /\ maxStreak' = OrZero(globalMaxStreak)
    /\ localStorage' = saved(streak, totalRolls, maxStreak')
    /\ UNCHANGED <<streak, totalRolls, outcome, isRolling, showExplosion,
                   selectedFaceIndex, useGlobalStreak, mounted, rollTimers,
                   explosionTimers, started>>
    /\ UNCHANGED <<firebaseConfig, database, globalStreak, globalMaxStreak, ops, nextOp,
                   subscribed, streakEvent, initialLoad, sinceReset, conflicts>>
    /\ UNCHANGED <<diceVars, otherVars>>

\* loadInitialData: getGlobalStreak() and getGlobalMaxStreak() read the remote
\* values (0 when the get fails) ...
LoadRead ==
    /\ initialLoad.stage = "pending"
    /\ \E ok \in BOOLEAN :
          initialLoad' = [stage |-> "read",
                          streak |-> IF ok THEN OrZero(globalStreak) ELSE 0,
                          maxStreak |-> IF ok THEN OrZero(globalMaxStreak) ELSE 0]
    /\ UNCHANGED <<firebaseConfig, database, globalStreak, globalMaxStreak, ops, nextOp,
                   subscribed, streakEvent, maxEvent, sinceReset, conflicts>>
    /\ UNCHANGED <<appVars, diceVars, otherVars>>

\* ... and, once both promises resolve, setState puts them into the GameState.
LoadApply ==
    /\ initialLoad.stage = "read"
    /\ initialLoad' = [initialLoad EXCEPT !.stage = "done"]
    /\ streak' = initialLoad.streak
    /\ maxStreak' = initialLoad.maxStreak
    /\ localStorage' = saved(streak', totalRolls, maxStreak')
    /\ UNCHANGED <<totalRolls, outcome, isRolling, showExplosion,
                   selectedFaceIndex, useGlobalStreak, mounted, rollTimers,
                   explosionTimers, started>>
    /\ UNCHANGED <<firebaseConfig, database, globalStreak, globalMaxStreak, ops, nextOp,
                   subscribed, streakEvent, maxEvent, sinceReset, conflicts>>
    /\ UNCHANGED <<diceVars, otherVars>>

\* ==================================================== IcosahedronDice.useFrame
\* Rolling: the angular-velocity simulation (random start velocity and offset,
\* damping, friction) turns the die to an orientation that depends on the
\* random draws: any sampled orientation, or the one it had.
SpinFrame ==
    /\ isRolling
    /\ rotationComplete' = FALSE
    /\ quaternion' \in {quaternion} \cup
          {[face |-> selectedFaceIndex, angle |-> a] : a \in AngleSamples}
    /\ frames' = 0
    /\ UNCHANGED <<verificationRetryCount, detectedFaceIndex, actualFacingFace,
                   verdict, deltas, noisy>>
    /\ UNCHANGED <<appVars, fbVars, otherVars>>

\* Variant: the earlier useFrame, which retries every mismatch and counts none.
verifyEarlier(actual, selected, detected, retryCount) ==
    IF actual = selected
    THEN [detectedFaceIndex |-> selected, verificationRetryCount |-> retryCount,
          rotationComplete |-> TRUE, verdict |-> Verified]
    ELSE [detectedFaceIndex |-> detected, verificationRetryCount |-> retryCount,
          rotationComplete |-> FALSE, verdict |-> Retried]

\* Variant: on the third mismatch the detected face becomes the located one.
verifyTrustLocator(actual, selected, detected, retryCount) ==
    IF actual = selected
    THEN [detectedFaceIndex |-> selected, verificationRetryCount |-> 0,
          rotationComplete |-> TRUE, verdict |-> Verified]
    ELSE IF retryCount + 1 < RetryLimit
         THEN [detectedFaceIndex |-> detected, verificationRetryCount |-> retryCount + 1,
               rotationComplete |-> FALSE, verdict |-> Retried]
         ELSE [detectedFaceIndex |-> actual, verificationRetryCount |-> 0,
               rotationComplete |-> TRUE, verdict |-> Forced]

\* Variant: the factor is the frame delta alone, without the speed.
lerpFactorNoSpeed(delta) == Min(UNIT, delta)

\* const lerpFactor = Math.min(1.0, delta * speed), in thousandths
lerpFactor(delta) == Min(UNIT, delta * speed)

\* The verification after the snap: the located face against the designated one.
\* A match completes; a mismatch retries while retryCount + 1 < 3, and on the
\* third one forces the detected face to the designated one and completes.
verify(actual, selected, detected, retryCount) ==
    IF actual = selected
    THEN [detectedFaceIndex |-> selected, verificationRetryCount |-> 0,
          rotationComplete |-> TRUE, verdict |-> Verified]
    ELSE IF retryCount + 1 < RetryLimit
         THEN [detectedFaceIndex |-> detected, verificationRetryCount |-> retryCount + 1,
               rotationComplete |-> FALSE, verdict |-> Retried]
         ELSE [detectedFaceIndex |-> selected, verificationRetryCount |-> 0,
               rotationComplete |-> TRUE, verdict |-> Forced]

\* Variant: the aligning branch without its early return on completion.
alignsNoEarlyReturn(rolling, selected, complete) ==
    ~rolling /\ selected # null

\* The aligning branch of useFrame runs: not rolling, a designated face, and
\* not past the early return "if (rotationCompleteRef.current) return".
aligns(rolling, selected, complete) ==
    ~rolling /\ selected # null /\ ~complete

\* Stopped with a designated face and not yet complete: slerp towards the
\* target, and under the threshold snap, mark complete and verify.
\* Variant: under the threshold the frame keeps the interpolated orientation.
snapKeepsSlerp(targetQuat, slerped) == slerped

\* groupRef.current.quaternion.copy(targetQuat)
snap(targetQuat, slerped) == targetQuat

alignFrame(delta, noise, angle) ==
    /\ aligns(isRolling, selectedFaceIndex, rotationComplete)
    /\ LET targetQuat == calculateTargetQuaternion(selectedFaceIndex)
           slerped == slerp(angle, targetQuat, lerpFactor(delta))
           actual == located[targetQuat.face][noise.face]
           v == verify(actual, selectedFaceIndex, detectedFaceIndex,
                       verificationRetryCount)
       IN  IF angle < threshold
           THEN /\ quaternion' = snap(targetQuat, slerped)
                /\ actualFacingFace' = actual
                /\ detectedFaceIndex' = v.detectedFaceIndex
                /\ verificationRetryCount' = v.verificationRetryCount
                /\ rotationComplete' = v.rotationComplete
                /\ verdict' = v.verdict
           ELSE /\ quaternion' = slerped
                /\ verdict' = NotVerified
                /\ UNCHANGED <<rotationComplete, verificationRetryCount,
                               detectedFaceIndex, actualFacingFace>>
    /\ frames' = Min(frames + 1, MaxFrames)
    /\ UNCHANGED <<deltas, noisy>>
    /\ UNCHANGED <<appVars, fbVars, otherVars>>

AlignFrame ==
    \E delta \in deltas, noise \in Noises :
        \E angle \in angleTo(quaternion, calculateTargetQuaternion(selectedFaceIndex), AngleSamples) :
            alignFrame(delta, noise, angle)

\* Stopped and complete (the early return), or no designated face yet: the
\* frame changes nothing the model keeps.
RestFrame ==
    /\ ~isRolling
    /\ selectedFaceIndex = null \/ rotationComplete
    /\ UNCHANGED vars

Frame == SpinFrame \/ AlignFrame \/ RestFrame

\* ========================================================== RiskDice.useMemo
\* One iteration of "for (let i = 0; i < 20; i++)": the three pushes.
MemoPush ==
    /\ loopIndex < SIDES
    /\ LET a == faceAttributes(loopIndex, outcome, selectedFaceIndex)
       IN  /\ texts' = Append(texts, a.text)
           /\ colors' = Append(colors, a.color)
           /\ highlights' = Append(highlights, a.highlight)
    /\ loopIndex' = loopIndex + 1
    /\ UNCHANGED <<appVars, fbVars, diceVars, locVars, buildVars, pureVars>>

\* ============================================================ specifications
\* The App and its Firebase calls, one client.
Next ==
    \/ Mount
    \/ initializeFirebase
    \/ RollDice
    \/ RollTimeout
    \/ TxnRun
    \/ TxnCommit
    \/ TxnFail
    \/ OpReturn
    \/ ListenStreak
    \/ ListenMaxStreak
    \/ LoadRead
    \/ LoadApply
    \/ ExplosionTimeout

Spec == Init /\ [][Next]_vars

\* The roll timer fires 1200 ms after the roll started, and every Firebase
\* call settles: its transaction is answered (or rejected) and its promise
\* resolves, after which the awaiting continuation runs.
SpecFair ==
    /\ Spec
    /\ WF_vars(RollTimeout)
    /\ WF_vars(TxnRun)
    /\ WF_vars(TxnCommit)
    /\ WF_vars(OpReturn)

\* The page is closed and opened again: the timers and the component state
\* go, the store stays, and App() builds its state from loadLocalState().
\* (started keeps counting over all the starts.)
Reload ==
    /\ mounted
    /\ LET loaded == loadLocalState(localStorage)
       IN  /\ streak' = loaded.streak
           /\ totalRolls' = loaded.totalRolls
           /\ maxStreak' = loaded.maxStreak
           /\ outcome' = loaded.outcome
    /\ isRolling' = FALSE
    /\ showExplosion' = FALSE
    /\ selectedFaceIndex' = null
    /\ useGlobalStreak' = FALSE
    /\ mounted' = FALSE
    /\ rollTimers' = {}
    /\ explosionTimers' = 0
    /\ quaternion' = identityQuaternion
    /\ rotationComplete' = FALSE
    /\ verificationRetryCount' = 0
    /\ detectedFaceIndex' = null
    /\ actualFacingFace' = null
    /\ verdict' = NotVerified
    /\ frames' = 0
    /\ UNCHANGED <<started, localStorage, deltas, noisy>>
    /\ UNCHANGED <<fbVars, otherVars>>

\* Stores an earlier use of the page in local mode can have left: none, and
\* counters whose next values take one more digit.
PriorStores == {{}, saved(3, 9, 5), saved(12, 98, 57)}

InitReload ==
    /\ AppStartingOn(PriorStores)
    /\ FirebaseAtStart({NoKeys})
    /\ quaternion = identityQuaternion
    /\ DiceRefsAtStart(FALSE, FrameDeltas)
    /\ MemoAtStart
    /\ LocatorAtStart
    /\ DieBuilt
    /\ AdapterAtStart({Current})

NextReload ==
    \/ Mount
    \/ RollDice
    \/ RollTimeout
    \/ ExplosionTimeout
    \/ Reload

SpecReload == InitReload /\ [][NextReload]_vars

\* The App in local mode with its die and the render loop.
InitDice == InitWith({NoKeys}, FALSE, FrameDeltas)

NextDice ==
    \/ Mount
    \/ RollDice
    \/ RollTimeout
    \/ ExplosionTimeout
    \/ SpinFrame
    \/ AlignFrame

SpecDice == InitDice /\ [][NextDice]_vars

\* The render loop is requestAnimationFrame-driven and the roll timer always
\* fires: frames and the timeout are taken whenever they stay enabled.
SpecDiceFair ==
    /\ SpecDice
    /\ WF_vars(SpinFrame)
    /\ WF_vars(AlignFrame)
    /\ WF_vars(RollTimeout)

\* The same, with a Face Locator whose answer may be off (rounding in the
\* world-space normals): with the exact normals the verification never fails.
InitNoisy == InitWith({NoKeys}, TRUE, FrameDeltas)

SpecNoisy == InitNoisy /\ [][NextDice]_vars

SpecNoisyFair ==
    /\ SpecNoisy
    /\ WF_vars(SpinFrame)
    /\ WF_vars(AlignFrame)
    /\ WF_vars(RollTimeout)

\* The Converging phase alone, at a fixed timestep: a local roll of any face
\* has just stopped, the die at any sampled angle from its target.
InitConverge ==
    /\ selectedFaceIndex \in Faces
    /\ deltas \in {{d} : d \in FixedDeltas \cup FineDeltas}
    /\ quaternion \in {[face |-> selectedFaceIndex, angle |-> a] : a \in AngleSamples}
    /\ LET done == localCompletion(loadLocalState({}), selectedFaceIndex = 0)
       IN  /\ streak = done.streak
           /\ totalRolls = done.totalRolls
           /\ maxStreak = done.maxStreak
           /\ outcome = done.outcome
           /\ localStorage = saved(done.streak, done.totalRolls, done.maxStreak)
    /\ isRolling = FALSE
    /\ showExplosion = (selectedFaceIndex = 0)
    /\ useGlobalStreak = FALSE
    /\ mounted = TRUE
    /\ rollTimers = {}
    /\ explosionTimers = IF selectedFaceIndex = 0 THEN 1 ELSE 0
    /\ started = 1
    /\ firebaseConfig = NoKeys
    /\ database = NoDatabase
    /\ globalStreak = null
    /\ globalMaxStreak = null
    /\ ops = {}
    /\ nextOp = 0
    /\ subscribed = FALSE
    /\ streakEvent = FALSE
    /\ maxEvent = FALSE
    /\ initialLoad = noLoad
    /\ sinceReset = 0
    /\ conflicts = 0
    /\ rotationComplete = FALSE
    /\ verificationRetryCount = 0
    /\ detectedFaceIndex = null
    /\ actualFacingFace = null
    /\ verdict = NotVerified
    /\ frames = 0
    /\ noisy = FALSE
    /\ loopIndex = 0
    /\ texts = <<>>
    /\ colors = <<>>
    /\ highlights = <<>>
    /\ LocatorAtStart
    /\ DieBuilt
    /\ AdapterAtStart({Current})

NextConverge == AlignFrame

SpecConverge == InitConverge /\ [][NextConverge]_vars

\* The Face Attribute Adapter alone: its two props drawn from all their values.
InitAdapter ==
    /\ outcome \in DiceOutcome
    /\ selectedFaceIndex \in Faces \cup {null}
    /\ isRolling = (outcome = ROLLING)
    /\ mounted = TRUE
    /\ localStorage = saved(0, 0, 0)
    /\ streak = 0
    /\ totalRolls = 0
    /\ maxStreak = 0
    /\ showExplosion = FALSE
    /\ useGlobalStreak = FALSE
    /\ rollTimers = {}
    /\ explosionTimers = 0
    /\ started = 0
    /\ firebaseConfig = NoKeys
    /\ database = NoDatabase
    /\ globalStreak = null
    /\ globalMaxStreak = null
    /\ ops = {}
    /\ nextOp = 0
    /\ subscribed = FALSE
    /\ streakEvent = FALSE
    /\ maxEvent = FALSE
    /\ initialLoad = noLoad
    /\ sinceReset = 0
    /\ conflicts = 0
    /\ quaternion = identityQuaternion
    /\ rotationComplete = FALSE
    /\ verificationRetryCount = 0
    /\ detectedFaceIndex = null
    /\ actualFacingFace = null
    /\ verdict = NotVerified
    /\ frames = 0
    /\ deltas = FrameDeltas
    /\ noisy = FALSE
    /\ loopIndex = 0
    /\ texts = <<>>
    /\ colors = <<>>
    /\ highlights = <<>>
    /\ LocatorAtStart
    /\ DieBuilt
    /\ AdapterAtStart({Current})

NextAdapter == MemoPush

SpecAdapter == InitAdapter /\ [][NextAdapter]_vars

\* incrementGlobalStreak and resetGlobalStreak called by any clients against
\* one database.
NextFirebase ==
    \/ RemoteCall
    \/ TxnRun
    \/ TxnCommit
    \/ TxnFail
    \/ OpReturn

InitFirebase == InitWith({AllKeys}, FALSE, FrameDeltas)

SpecFirebase == InitFirebase /\ [][NextFirebase]_vars

\* One call of detectFacingFace followed through its forEach, on the identity
\* orientation of a fresh group and on every exactly aligned one, with exact
\* products and with an error on one of them.
LocateStep ==
    /\ locIndex < Len(faces)
    /\ LET d == worldDot(locIndex, quaternion, locNoise)
       IN  IF exceeds(d, locMaxDot)
           THEN /\ locMaxDot' = [finite |-> TRUE, value |-> d]
                /\ locFacing' = locIndex
           ELSE UNCHANGED <<locMaxDot, locFacing>>
    /\ locIndex' = locIndex + 1
    /\ UNCHANGED <<locNoise, locReturns>>
    /\ UNCHANGED <<appVars, fbVars, diceVars, memoVars, buildVars, pureVars>>

InitLocator ==
    /\ AppAtStart
    /\ FirebaseAtStart({NoKeys})
    /\ quaternion \in {[face |-> f, angle |-> 0] : f \in Faces \cup {null}}
    /\ DiceRefsAtStart(TRUE, FrameDeltas)
    /\ MemoAtStart
    /\ locIndex = 0
    /\ locMaxDot = minusInfinity
    /\ locFacing = 0
    /\ locNoise \in Noises
    /\ locReturns = <<>>
    /\ DieBuilt
    /\ AdapterAtStart({Current})

\* Variant: maxDot lives outside the callback and keeps its value between calls.
localsKept(previous) == [maxDot |-> previous, facingFaceIndex |-> 0]

\* let maxDot = -Infinity; let facingFaceIndex = 0: the locals of a new call.
localsAtEntry(previous) == [maxDot |-> minusInfinity, facingFaceIndex |-> 0]

\* return facingFaceIndex, and the caller calls again on the orientation it
\* left as it was (the same floating-point products, so the same error).
LocateReturn ==
    /\ locIndex = Len(faces)
    /\ Len(locReturns) < MaxCalls
    /\ locReturns' = Append(locReturns, locFacing)
    /\ LET locals == localsAtEntry(locMaxDot)
       IN  /\ locMaxDot' = locals.maxDot
           /\ locFacing' = locals.facingFaceIndex
    /\ locIndex' = 0
    /\ UNCHANGED locNoise
    /\ UNCHANGED <<appVars, fbVars, diceVars, memoVars, buildVars, pureVars>>

NextLocator == LocateStep \/ LocateReturn

SpecLocator == InitLocator /\ [][NextLocator]_vars

\* ------------------------------------------------ building and rendering
\* Variant: the loop walks the table from its end.
indicesFromEnd(table, i) == table[Len(table) - i]

\* "for (const indices of faceIndices)": iteration i takes the i-th triple.
indicesAt(table, i) == table[i + 1]

\* IcosahedronDice mounts: useMemo(..., []) calls createStandardIcosahedron.
Invoke ==
    /\ ~building
    /\ builds < MaxBuilds
    /\ building' = TRUE
    /\ faceData' = <<>>
    /\ UNCHANGED <<indexTable, builds, built, countLog, group, meshes>>
    /\ UNCHANGED <<appVars, fbVars, diceVars, memoVars, locVars, pureVars>>

\* One iteration of the for loop: faceData.push({vertices, normal}).
BuildStep ==
    /\ building
    /\ Len(faceData) < Len(indexTable)
    /\ faceData' = Append(faceData, faceOf(indicesAt(indexTable, Len(faceData))))
    /\ UNCHANGED <<indexTable, building, builds, built, countLog, group, meshes>>
    /\ UNCHANGED <<appVars, fbVars, diceVars, memoVars, locVars, pureVars>>

\* return faceData; the component finishes its render with these faces and
\* its face count effect runs.
BuildReturn ==
    /\ building
    /\ Len(faceData) = Len(indexTable)
    /\ building' = FALSE
    /\ built' = faceData
    /\ builds' = builds + 1
    /\ countLog' = faceCountEffect(Len(faceData))
    /\ group' = render(faceData).group
    /\ meshes' = render(faceData).meshes
    /\ UNCHANGED <<indexTable, faceData>>
    /\ UNCHANGED <<appVars, fbVars, diceVars, memoVars, locVars, pureVars>>

NextBuilder == Invoke \/ BuildStep \/ BuildReturn

InitAnyBuilder(tables) ==
    /\ AppAtStart
    /\ FirebaseAtStart({NoKeys})
    /\ quaternion = identityQuaternion
    /\ DiceRefsAtStart(FALSE, FrameDeltas)
    /\ MemoAtStart
    /\ LocatorAtStart
    /\ NothingBuilt(tables)
    /\ AdapterAtStart({Current})

\* The builder as written, invoked by one mount of the die after another.
InitBuilder == InitAnyBuilder({faceIndices})

SpecBuilder == InitBuilder /\ [][NextBuilder]_vars

\* The component fed by builders whose index table is not the 20 triples of
\* the source: none, one, the first 19, and the 20 with one repeated.
IndexTables ==
    {SubSeq(faceIndices, 1, n) : n \in {0, 1, SIDES - 1, SIDES}}
        \cup {Append(faceIndices, faceIndices[1])}

InitFaceCount == InitAnyBuilder(IndexTables)

SpecFaceCount == InitFaceCount /\ [][NextBuilder]_vars

\* ------------------------------------------------- the adapter, run twice
\* The useMemo callback runs (a mount, or a remount with the same props): the
\* first result is kept in evalA, the second in evalB.
Evaluate ==
    /\ evalB = notEvaluated
    /\ \E random \in RandomDraws :
          LET result == evaluate(adapter, outcome, selectedFaceIndex, random)
          IN  IF evalA = notEvaluated
              THEN evalA' = result /\ UNCHANGED evalB
              ELSE evalB' = result /\ UNCHANGED evalA
    /\ UNCHANGED adapter
    /\ UNCHANGED <<appVars, fbVars, diceVars, memoVars, locVars, buildVars>>

InitPurity ==
    /\ outcome \in DiceOutcome
    /\ selectedFaceIndex \in Faces \cup {null}
    /\ isRolling = (outcome = ROLLING)
    /\ mounted = TRUE
    /\ localStorage = saved(0, 0, 0)
    /\ streak = 0
    /\ totalRolls = 0
    /\ maxStreak = 0
    /\ showExplosion = FALSE
    /\ useGlobalStreak = FALSE
    /\ rollTimers = {}
    /\ explosionTimers = 0
    /\ started = 0
    /\ FirebaseAtStart({NoKeys})
    /\ quaternion = identityQuaternion
    /\ DiceRefsAtStart(FALSE, FrameDeltas)
    /\ MemoAtStart
    /\ LocatorAtStart
    /\ DieBuilt
    /\ AdapterAtStart({Current, Earlier})

NextPurity == Evaluate

SpecPurity == InitPurity /\ [][NextPurity]_vars

\* --------------------------------- the earlier IcosahedronDice.useFrame
\* The second copy of the component in RiskDice.tsx: its aligning branch eases
\* out between two speeds, snaps under a threshold of 0.0001 rad and has no
\* retry counter and no early return.
thresholdEarlier == 10
baseSpeedEarlier == 8
maxSpeedEarlier == 15

\* speed = baseSpeed + (maxSpeed - baseSpeed) * (1 - (1 - min(angle / PI, 1))^2),
\* in thousandths
speedEarlier(angle) ==
    LET normalizedAngle == Min((angle * UNIT) \div PI, UNIT)
        easeOutFactor == UNIT - ((UNIT - normalizedAngle) * (UNIT - normalizedAngle)) \div UNIT
    IN  baseSpeedEarlier * UNIT + (maxSpeedEarlier - baseSpeedEarlier) * easeOutFactor

lerpFactorEarlier(delta, angle) == Min(UNIT, (delta * speedEarlier(angle)) \div UNIT)

alignFrameEarlier(delta, noise, angle) ==
    /\ ~isRolling
    /\ selectedFaceIndex # null
    /\ LET targetQuat == calculateTargetQuaternion(selectedFaceIndex)
           slerped == slerp(angle, targetQuat, lerpFactorEarlier(delta, angle))
           actual == located[targetQuat.face][noise.face]
           v == verifyEarlier(actual, selectedFaceIndex, detectedFaceIndex,
                              verificationRetryCount)
       IN  IF angle < thresholdEarlier
           THEN /\ quaternion' = snap(targetQuat, slerped)
                /\ IF ~rotationComplete
                   THEN /\ actualFacingFace' = actual
                        /\ detectedFaceIndex' = v.detectedFaceIndex
                        /\ rotationComplete' = v.rotationComplete
                        /\ verdict' = v.verdict
                        /\ frames' = Min(frames + 1, MaxFrames)
                   ELSE UNCHANGED <<actualFacingFace, detectedFaceIndex,
                                    rotationComplete, verdict, frames>>
           ELSE /\ quaternion' = slerped
                /\ verdict' = NotVerified
                /\ frames' = Min(frames + 1, MaxFrames)
                /\ UNCHANGED <<rotationComplete, detectedFaceIndex, actualFacingFace>>
    /\ UNCHANGED <<verificationRetryCount, deltas, noisy>>
    /\ UNCHANGED <<appVars, fbVars, otherVars>>

AlignFrameEarlier ==
    \E delta \in deltas, noise \in Noises :
        \E angle \in angleTo(quaternion, calculateTargetQuaternion(selectedFaceIndex), AngleSamples) :
            alignFrameEarlier(delta, noise, angle)

NextEarlier ==
    \/ Mount
    \/ RollDice
    \/ RollTimeout
    \/ ExplosionTimeout
    \/ SpinFrame
    \/ AlignFrameEarlier

SpecEarlier == InitNoisy /\ [][NextEarlier]_vars

\* Frames and the roll timer as in SpecNoisyFair.
SpecEarlierFair ==
    /\ SpecEarlier
    /\ WF_vars(SpinFrame)
    /\ WF_vars(AlignFrameEarlier)
    /\ WF_vars(RollTimeout)

\* ==================================================================== claims
\* A roll has completed: the session starts with totalRolls = 0 and every
\* completion adds one.  No roll in progress: not rolling, no roll timer
\* pending and no completion handler of the App waiting on its Firebase call.
RollCompleted == totalRolls > 0
NoRollInProgress ==
    /\ ~isRolling
    /\ rollTimers = {}
    /\ \A op \in ops : ~op.app

\* A roll designating face f has stopped.
Stopped(f) ==
    /\ ~isRolling
    /\ selectedFaceIndex = f
    /\ outcome \in {GREAT_FORTUNE, GREAT_MISFORTUNE}

OutcomeColor == IF outcome = GREAT_MISFORTUNE THEN Red950 ELSE Yellow600

\* The die rests on face f: converged on f's target, the Face Locator returns
\* f, and the adapter highlights f with the outcome's colour, all others default.
Shown(f) ==
    /\ Stopped(f)
    /\ rotationComplete
    /\ quaternion = calculateTargetQuaternion(f)
    /\ located[quaternion.face][noNoise.face] = f
    /\ faceProps(outcome, selectedFaceIndex)[f].highlight
    /\ faceProps(outcome, selectedFaceIndex)[f].color = OutcomeColor
    /\ \A i \in Faces \ {f} : faceProps(outcome, selectedFaceIndex)[i] = defaultAppearance

\* C1, as amended: whenever a roll designating face f stops, the die eventually
\* rests on f (converged, located as f, f highlighted with the outcome's
\* colour, the other 19 faces default), unless a new roll is started first.
C1_StoppedRollIsShownUnlessRerolled ==
    \A f \in RollFaces : Stopped(f) ~> (Shown(f) \/ isRolling)

\* C1 as stated: the same without the exception for a new roll.
C1_StoppedRollIsShown ==
    \A f \in RollFaces : Stopped(f) ~> Shown(f)

C1_Witness ==
    /\ Shown(SIDES - 1)
    /\ frames > 1
    /\ started = 1

\* A frame that snapped and whose verification found another face than the
\* designated one.
SnapFailed ==
    /\ frames' # frames
    /\ verdict' # NotVerified
    /\ actualFacingFace' # selectedFaceIndex

Converging ==
    /\ ~isRolling
    /\ selectedFaceIndex # null
    /\ ~rotationComplete

\* C2: a failed verification after convergence is retried only up to the third
\* consecutive failure; the third one sets detectedFaceIndex to the designated
\* face, leaves rotationComplete true and resets the retry counter to 0; so
\* the retry counter never reaches 3 and every Converging phase ends.
C2_RetriesAreBounded ==
    /\ [](verificationRetryCount < RetryLimit)
    /\ [][(SnapFailed /\ verificationRetryCount + 1 < RetryLimit)
            => (/\ verificationRetryCount' = verificationRetryCount + 1
                /\ ~rotationComplete')]_vars
    /\ [][(SnapFailed /\ verificationRetryCount + 1 >= RetryLimit)
            => (/\ detectedFaceIndex' = selectedFaceIndex
                /\ rotationComplete'
                /\ verificationRetryCount' = 0)]_vars
    /\ (Converging ~> ~Converging)

C2_Witness ==
    /\ verdict = Forced
    /\ rotationComplete
    /\ verificationRetryCount = 0
    /\ actualFacingFace # selectedFaceIndex

\* C3, as amended: at a fixed frame timestep of at least 3 ms, Converging from
\* any orientation towards any face is marked complete within FrameBudget
\* frames.
C3_ConvergesWithinBudgetFrom3ms ==
    (\A d \in deltas : d >= 3) => (frames >= FrameBudget => rotationComplete)

\* C3 as stated: the same for every fixed positive timestep.
C3_ConvergesWithinBudget ==
    frames >= FrameBudget => rotationComplete

C3_Witness ==
    /\ rotationComplete
    /\ deltas = {3}
    /\ frames > 200
    /\ quaternion = calculateTargetQuaternion(selectedFaceIndex)

\* C4: after a forced alignment detectedFaceIndex is the designated face, and
\* the designated face is the only one whose appearance differs from the
\* default, whatever the Face Locator returned.
C4_ForcedAlignmentShowsDesignated ==
    verdict = Forced =>
        /\ detectedFaceIndex = selectedFaceIndex
        /\ \A i \in Faces \ {selectedFaceIndex} :
               faceProps(outcome, selectedFaceIndex)[i] = defaultAppearance

C4_Witness ==
    /\ verdict = Forced
    /\ actualFacingFace \in Faces \ {selectedFaceIndex}
    /\ detectedFaceIndex = selectedFaceIndex
    /\ faceProps(outcome, selectedFaceIndex)[selectedFaceIndex] # defaultAppearance

\* C5: every face the adapter has produced other than the designated one has
\* the default text, the default colour and no highlight, whatever the
\* outcome; so at most one face is highlighted and none but the designated
\* one shows the unfavorable text.
C5_OthersAreDefault ==
    /\ \A i \in 0 .. (loopIndex - 1) :
          i # selectedFaceIndex =>
             /\ texts[i + 1] = DaJi
             /\ colors[i + 1] = Slate800
             /\ ~highlights[i + 1]
    /\ Cardinality({k \in 1 .. loopIndex : highlights[k]}) <= 1
    /\ \A k \in 1 .. loopIndex : texts[k] = DaXiong => k = selectedFaceIndex + 1

C5_Witness ==
    /\ loopIndex = SIDES
    /\ selectedFaceIndex = 7
    /\ outcome = GREAT_MISFORTUNE
    /\ highlights[8]
    /\ texts[1] = DaJi

C7_OutcomeMatchesFace ==
    (RollCompleted /\ NoRollInProgress) =>
        /\ outcome = GREAT_MISFORTUNE <=> selectedFaceIndex = 0
        /\ outcome = GREAT_FORTUNE <=> selectedFaceIndex \in 1 .. (SIDES - 1)

\* The step in which a local-mode roll completes.
LocalCompletionStep ==
    /\ isRolling
    /\ ~isRolling'
    /\ ~useGlobalStreak

\* C8: in local mode, a completed roll of a face other than 0 adds 1 to streak
\* and makes maxStreak the larger of its old value and the new streak; a
\* completed roll of face 0 sets streak to 0 and leaves maxStreak unchanged.
C8_LocalCompletionUpdatesStreak ==
    [][LocalCompletionStep =>
         IF selectedFaceIndex # 0
         THEN /\ streak' = streak + 1
              /\ maxStreak' = Max(maxStreak, streak')
         ELSE /\ streak' = 0
              /\ maxStreak' = maxStreak]_vars

C8_Witness ==
    /\ ~useGlobalStreak
    /\ totalRolls = 2
    /\ outcome = GREAT_MISFORTUNE
    /\ streak = 0
    /\ maxStreak = 1

\* C9: increments and resets of the global streak are atomic: whatever the
\* interleaving of the clients' calls, the stored streak is the number of
\* increments committed after the last committed reset.
C9_GlobalStreakCountsIncrements ==
    OrZero(globalStreak) = sinceReset

C9_Witness ==
    /\ conflicts > 0
    /\ globalStreak = 2
    /\ sinceReset = 2

\* C10 as stated: once the mount effect has run, the App is in global mode
\* with both listeners subscribed if the Firebase configuration is present,
\* and in local mode if it is absent.
C10_ConfiguredMeansGlobal ==
    mounted =>
        IF isFirebaseConfigured
        THEN useGlobalStreak /\ subscribed
        ELSE ~useGlobalStreak /\ ~subscribed

\* C11: whenever isRolling changes from false to true, also while the previous
\* convergence or its verification retries are still going on, the retry
\* counter becomes 0 and rotationComplete false.
C11_NewRollResetsRetries ==
    [][(~isRolling /\ isRolling') =>
          (verificationRetryCount' = 0 /\ ~rotationComplete')]_vars

\* A second roll was started after a mismatch that was neither verified nor
\* forced since: the retries of the first roll were still going on.
C11_Witness ==
    /\ isRolling
    /\ started = 2
    /\ detectedFaceIndex = null
    /\ actualFacingFace # null
    /\ verificationRetryCount = 0
    /\ ~rotationComplete

\* The controller's phase.
Spinning == isRolling
Idle == ~isRolling /\ (selectedFaceIndex = null \/ rotationComplete)
Phase == IF Spinning THEN "Spinning" ELSE IF Converging THEN "Converging" ELSE "Idle"

\* C12: the phase changes only from Idle to Spinning (isRolling becomes true),
\* from Spinning to Converging (isRolling becomes false with a designated
\* face), from Converging to Idle (a snap whose verification succeeded or
\* was forced) and from Converging back to Spinning (a new roll); so an Idle
\* controller never returns to Converging without Spinning in between.
C12_PhaseTransitions ==
    [][Phase' # Phase =>
          \/ Phase = "Idle" /\ Phase' = "Spinning"
          \/ Phase = "Spinning" /\ Phase' = "Converging" /\ selectedFaceIndex' # null
          \/ Phase = "Converging" /\ Phase' = "Idle" /\ verdict' \in {Verified, Forced}
          \/ Phase = "Converging" /\ Phase' = "Spinning"]_vars

\* Idle again after a second roll whose convergence ended in a forced alignment.
C12_Witness ==
    /\ Phase = "Idle"
    /\ started = 2
    /\ totalRolls = 2
    /\ verdict = Forced
    /\ frames > 1

\* Face k has the largest product among the faces the call has visited, and
\* is the first of them that has it.
FirstLargest(k) ==
    /\ k \in 0 .. (locIndex - 1)
    /\ \A j \in 0 .. (locIndex - 1) :
          /\ ~ZLess(worldDot(k, quaternion, locNoise), worldDot(j, quaternion, locNoise))
          /\ j < k => ZLess(worldDot(j, quaternion, locNoise),
                            worldDot(k, quaternion, locNoise))

\* C13: detectFacingFace returns the index of the face whose rotated normal
\* has the largest dot product with the viewer direction, and the lowest such
\* index when several faces share the maximum.
C13_LocatorReturnsFirstLargest ==
    /\ locIndex > 0 => FirstLargest(locFacing)
    /\ locIndex = Len(faces) => locFacing = detectFacingFace(quaternion, locNoise)

\* The identity orientation: the viewer axis passes through the middle of the
\* edge shared by faces 6 and 15, which tie for the largest product.
C13_Witness ==
    /\ locIndex = Len(faces)
    /\ quaternion = identityQuaternion
    /\ locNoise = noNoise
    /\ worldDot(6, quaternion, locNoise) = worldDot(15, quaternion, locNoise)
    /\ locFacing = 6

\* C14: for every face index i, detectFacingFace on the orientation
\* calculateTargetQuaternion(i) returns i.
C14_RoundTrip ==
    \A i \in Faces :
        (/\ quaternion = calculateTargetQuaternion(i)
         /\ locNoise = noNoise
         /\ locIndex = Len(faces)) => locFacing = i

C14_Witness ==
    /\ quaternion = calculateTargetQuaternion(SIDES - 1)
    /\ locNoise = noNoise
    /\ locIndex = Len(faces)
    /\ locFacing = SIDES - 1

C16_TwentyStableFaces ==
    /\ \A k \in 1 .. Len(faceData) : faceData[k] = faceOf(faceIndices[k])
    /\ builds > 0 =>
          /\ Len(built) = 20
          /\ \A k \in 1 .. 20 : built[k] = faceOf(faceIndices[k])
          /\ built = createStandardIcosahedron

C16_Witness ==
    /\ builds >= 2
    /\ ~building
    /\ Len(built) = 20
    /\ meshes = 20

\* The rolls that have started and not yet been counted: their timer is
\* pending, or their handler stands at its await of the Firebase call.
PendingRolls == Cardinality(rollTimers) + Cardinality({op \in ops : op.app})

\* A step in which a roll's handler runs its setState: the timer's callback in
\* local mode, the continuation after the await in global mode.
CompletionStep == PendingRolls' = PendingRolls - 1

C18_StoredStateReadsBack ==
    /\ [](mounted =>
            loadLocalState(localStorage) =
                [streak |-> streak, totalRolls |-> totalRolls,
                 outcome |-> IDLE, maxStreak |-> maxStreak])
    /\ [][(mounted /\ ~mounted') =>
            /\ streak' = streak
            /\ totalRolls' = totalRolls
            /\ maxStreak' = maxStreak
            /\ outcome' = IDLE]_vars

\* Restarted after two good rolls that took totalRolls from 98 to 100.
C18_Witness ==
    /\ ~mounted
    /\ started = 2
    /\ totalRolls = 100
    /\ streak = 14
    /\ maxStreak = 57
    /\ outcome = IDLE

\* The controller is converged: the completion flag is set and no roll runs.
Converged == rotationComplete /\ ~isRolling

\* C19: once the controller is converged the orientation is the target
\* orientation of the designated face, and no later step changes it until a
\* new roll starts.
C19_ConvergedOrientationIsHeld ==
    /\ [](Converged =>
            /\ selectedFaceIndex # null
            /\ quaternion = calculateTargetQuaternion(selectedFaceIndex))
    /\ [][(Converged /\ ~isRolling') =>
            (quaternion' = quaternion /\ rotationComplete')]_vars

C19_Witness ==
    /\ Converged
    /\ verdict = Verified
    /\ selectedFaceIndex = SIDES - 1
    /\ quaternion = calculateTargetQuaternion(SIDES - 1)
    /\ frames > 1
    /\ started = 1

BothEvaluated == evalA # notEvaluated /\ evalB # notEvaluated

SameArrays ==
    /\ evalA = evalB
    /\ Len(evalA.faceTexts) = 20
    /\ Len(evalA.faceColors) = 20
    /\ Len(evalA.faceHighlights) = 20

\* C20 (as the spec states it): two evaluations of the adapter on the same
\* (outcome, designatedFace) return identical arrays of length 20, for the
\* current adapter and for the earlier one.
C20_BothAdaptersArePure == BothEvaluated => SameArrays

\* C20 (amended): the current adapter is such a pure function; the earlier
\* adapter returns arrays of length 20 that agree on face 0, and agree
\* everywhere only when the outcome is GREAT_MISFORTUNE.
C20_CurrentAdapterIsPure ==
    BothEvaluated =>
        /\ adapter = Current => SameArrays
        /\ adapter = Earlier =>
              /\ Len(evalA.faceTexts) = 20 /\ Len(evalB.faceTexts) = 20
              /\ Len(evalA.faceColors) = 20 /\ Len(evalB.faceColors) = 20
              /\ Len(evalA.faceHighlights) = 20 /\ Len(evalB.faceHighlights) = 20
              /\ evalA.faceTexts[1] = evalB.faceTexts[1]
              /\ evalA.faceColors[1] = evalB.faceColors[1]
              /\ evalA.faceHighlights = evalB.faceHighlights
              /\ outcome = GREAT_MISFORTUNE => evalA = evalB

C20_Witness ==
    /\ adapter = Current
    /\ BothEvaluated
    /\ outcome = GREAT_FORTUNE
    /\ selectedFaceIndex = 1
    /\ evalA = evalB
    /\ evalA.faceColors[2] = Yellow600

\* C21: calls of detectFacingFace in succession on an unchanged orientation
\* return the same index, and no step of a call changes the orientation or
\* the controller's state.
C21_LocatorIsIdempotent ==
    /\ [](\A a, b \in 1 .. Len(locReturns) : locReturns[a] = locReturns[b])
    /\ [][UNCHANGED diceVars]_vars

\* Two calls on the identity orientation, where faces 6 and 15 tie.
C21_Witness ==
    /\ Len(locReturns) = 2
    /\ quaternion = identityQuaternion
    /\ locNoise = noNoise
    /\ locReturns = <<6, 6>>

\* Global mode with nothing in flight: no Firebase call is running, no value
\* event is waiting for its listener, and loadInitialData has finished.
RemoteQuiet ==
    /\ useGlobalStreak
    /\ rollTimers = {}
    /\ ops = {}
    /\ ~streakEvent
    /\ ~maxEvent
    /\ initialLoad.stage = "done"

\* C22 (as the spec states it): in global mode, once remote updates have
\* stopped, the displayed streak and maxStreak are the remote globalStreak and
\* globalMaxStreak; a late initial load leaves no older value in place.
C22_DisplayedIsRemote ==
    RemoteQuiet =>
        /\ streak = OrZero(globalStreak)
        /\ maxStreak = OrZero(globalMaxStreak)

\* C23 (as the spec states it): whatever the interleaving of the clients'
\* increments and resets, every state of the database a listener can observe
\* has globalMaxStreak >= globalStreak.
C23_MaxCoversStreak ==
    OrZero(globalMaxStreak) >= OrZero(globalStreak)

C25_RollingIffOutcomeRolling ==
    isRolling <=> (outcome = ROLLING)

\* C26 (as the spec states it): a call of incrementGlobalStreak whose streak
\* transaction committed returns the committed value, also when its
\* globalMaxStreak transaction failed; null means globalStreak was not changed.
C26_NullMeansUnchanged ==
    \A op \in ops :
        (op.kind = "inc" /\ op.pc = "return" /\ op.committed # null)
            => returnValue(op) = op.committed

\* C27: rollDice called while isRolling is true does nothing: while a roll is
\* rolling no step starts a roll, designates a face or schedules a timer, so
\* at most one roll-completion timer is pending, and only while rolling.
C27_NoRollWhileRolling ==
    /\ [](Cardinality(rollTimers) <= 1)
    /\ [](isRolling <=> rollTimers # {})
    /\ [][isRolling =>
            /\ started' = started
            /\ selectedFaceIndex' = selectedFaceIndex
            /\ rollTimers' \subseteq rollTimers]_vars

\* The second roll is rolling, with its timer the only one pending.
C27_Witness ==
    /\ isRolling
    /\ started = 2
    /\ totalRolls = 1
    /\ Cardinality(rollTimers) = 1
    /\ outcome = ROLLING

\* C28: in local mode, starting from the all-zero state, every reachable
\* state has 0 <= streak <= maxStreak <= totalRolls, and maxStreak never
\* decreases.
C28_LocalCountersAreOrdered ==
    /\ [](0 <= streak /\ streak <= maxStreak /\ maxStreak <= totalRolls)
    /\ [][maxStreak' >= maxStreak]_vars

\* Two good rolls: all three counters at 2.
C28_Witness ==
    /\ ~useGlobalStreak
    /\ streak = 2
    /\ maxStreak = 2
    /\ totalRolls = 2
    /\ ~isRolling

\* C29 (as the spec states it): the explosion overlay of a bad roll is taken
\* down only by a new roll or by that roll's own 2000 ms timer.  All these
\* timers have the same delay, so they fire in the order they were set: a
\* timer that fires while another is pending is the older one.
C29_OnlyOwnTimerClearsOverlay ==
    [][(showExplosion /\ ~showExplosion') =>
          \/ ~isRolling /\ isRolling'
          \/ explosionTimers = 1 /\ explosionTimers' = 0]_vars

\* The three directed edges of a triple, in its winding order.
DirectedEdges(indices) ==
    {<<indices[1], indices[2]>>, <<indices[2], indices[3]>>, <<indices[3], indices[1]>>}

FacesWithEdge(table, a, b) ==
    {k \in 1 .. Len(table) : <<a, b>> \in DirectedEdges(table[k])}

FacesAtVertex(table, v) ==
    {k \in 1 .. Len(table) : v \in {table[k][1], table[k][2], table[k][3]}}

\* The cross product of the first two edges of a triple, before the loop's
\* test of its direction.
crossNormal(indices) ==
    LET v1 == vertices[indices[1] + 1]
    IN  crossVectors(subVectors(vertices[indices[2] + 1], v1),
                     subVectors(vertices[indices[3] + 1], v1))

ClosedTriangulation(table) ==
    /\ Len(table) = 20
    /\ Len(vertices) = 12
    /\ \A k \in 1 .. Len(table) :
          /\ {table[k][1], table[k][2], table[k][3]} \subseteq 0 .. 11
          /\ Cardinality({table[k][1], table[k][2], table[k][3]}) = 3
    /\ \A j, k \in 1 .. Len(table) :
          j # k => {table[j][1], table[j][2], table[j][3]} #
                   {table[k][1], table[k][2], table[k][3]}
    /\ \A v \in 0 .. 11 : Cardinality(FacesAtVertex(table, v)) = 5
    /\ \A k \in 1 .. Len(table) :
          \A e \in DirectedEdges(table[k]) :
              /\ FacesWithEdge(table, e[1], e[2]) = {k}
              /\ Cardinality(FacesWithEdge(table, e[2], e[1])) = 1
              /\ k \notin FacesWithEdge(table, e[2], e[1])

\* C30: the 20 triples the builder's loop walks form a closed, consistently
\* wound triangulation of the 12 vertices: three distinct indices in 0..11
\* per triple, no face twice, five faces at every vertex, every directed edge
\* in exactly one face and its reverse in exactly one other face; so every
\* face the loop has pushed carries its cross product as normal, unflipped.
C30_TableIsClosedTriangulation ==
    /\ ClosedTriangulation(indexTable)
    /\ \A k \in 1 .. Len(faceData) : faceData[k].normal = crossNormal(indexTable[k])

\* The first invocation's loop has walked the whole table.
C30_Witness ==
    /\ building
    /\ builds = 0
    /\ Len(faceData) = 20
    /\ faceData[20].normal = crossNormal(faceIndices[20])

====
